---- MODULE Spec2Model ----
(***************************************************************************)
(* Verification model of the DRL BTC trading repository:                   *)
(*   - the training simulator BTCTradingEnv (src/btc_env.py),              *)
(*   - its older variant used by the trainer (src/train/btc_env.py),       *)
(*   - the live paper-trading tick handler and the decision ledger         *)
(*     (src/app/main.py, src/app/main_simple.py).                          *)
(* Python floats are modelled as exact rationals [n, d] in lowest terms.   *)
(***************************************************************************)
EXTENDS Integers, Sequences, FiniteSets, TLC

VARIABLES
    mode,           \* which program runs: a simulator, a service or a fetcher
    lookback,       \* self.lookback
    data,           \* self.data["close"]: the loaded price rows (row i is data[i+1])
    current_step,   \* self.current_step: the cursor into data
    position,       \* self.position
    equity,         \* self.equity
    peak_equity,    \* self.peak_equity (src/btc_env.py only)
    total_trades,   \* self.total_trades
    total_fees,     \* self.total_fees
    ret,            \* what the last reset()/step() call returned
    pre,            \* the engine state and prices the last step() started from
    alive,          \* TRUE while no step() of the episode has returned terminated
    current_position,   \* global current_position of src/app/main.py
    current_equity,     \* global current_equity (relative to the initial funds)
    trade_count,        \* global trade_count
    ticks,          \* the /tick requests: inputs, progress, decision record
    loop,           \* the coroutine the event loop is running (0: none)
    primary,        \* logs/decisions/<day>.jsonl: the lines of each day partition
    backup,         \* the copy of each day partition last uploaded to the bucket
    fetch           \* the locals of the candle fetch loop and where it stands

simVars == <<lookback, data, current_step, position, equity, peak_equity,
             total_trades, total_fees, ret, pre, alive>>

liveVars == <<current_position, current_equity, trade_count, ticks, loop,
              primary, backup>>

\* the fetch loop before it starts
NoFetch == [pc |-> "idle", current_since |-> 0, retry_count |-> 0,
            batch_success |-> FALSE, has_data |-> FALSE, attempts |-> 0]

FetchIdle == fetch = NoFetch

----------------------------------------------------------------------------
(* Bounds of the model *)

Lookback == 2
MaxEpisodeSteps == 1
MaxLookback == 10
MaxTrainAhead == 2
MaxTicks == 2
FetchSpan == 4
MaxBatch == 2

(* Program constants *)

InitialBalance == 10000
max_retries == 5

----------------------------------------------------------------------------
(* Exact rational arithmetic standing in for float64 *)

Abs(x) == IF x < 0 THEN -x ELSE x

RECURSIVE GCD(_, _)
GCD(a, b) == IF b = 0 THEN a ELSE GCD(b, a % b)

Rat(n, d) ==
    LET g == GCD(Abs(n), Abs(d))
        s == IF d < 0 THEN -1 ELSE 1
    IN  [n |-> s * (n \div g), d |-> s * (d \div g)]

Int2Rat(k) == [n |-> k, d |-> 1]
Zero == Int2Rat(0)
One == Int2Rat(1)

LCM(a, b) == (a \div GCD(a, b)) * b

\* each operation binds its operands once (a \in {x}), so an operand expression
\* is evaluated once however often the body reads it
RAdd(x, y) ==
    LET Sum(a, b) == LET l == LCM(a.d, b.d)
                     IN  Rat(a.n * (l \div a.d) + b.n * (l \div b.d), l)
    IN  CHOOSE r \in {Sum(a, b) : a \in {x}, b \in {y}} : TRUE

RNeg(x) == CHOOSE r \in {[n |-> -a.n, d |-> a.d] : a \in {x}} : TRUE
RSub(x, y) == RAdd(x, RNeg(y))

RMul(x, y) ==
    LET Product(a, b) ==
            LET g1 == GCD(Abs(a.n), b.d)
                g2 == GCD(Abs(b.n), a.d)
            IN  Rat((a.n \div g1) * (b.n \div g2), (a.d \div g2) * (b.d \div g1))
    IN  CHOOSE r \in {Product(a, b) : a \in {x}, b \in {y}} : TRUE

RInv(x) ==
    LET Inverse(a) == IF a.n < 0 THEN [n |-> -a.d, d |-> -a.n]
                      ELSE [n |-> a.d, d |-> a.n]
    IN  CHOOSE r \in {Inverse(a) : a \in {x}} : TRUE
RDiv(x, y) == RMul(x, RInv(y))

RLess(x, y) ==
    \E a \in {x} : \E b \in {y} :
        LET l == LCM(a.d, b.d)
        IN  a.n * (l \div a.d) < b.n * (l \div b.d)

RLeq(x, y) == \E a \in {x} : \E b \in {y} : a = b \/ RLess(a, b)
RAbs(x) == CHOOSE r \in {[n |-> Abs(a.n), d |-> a.d] : a \in {x}} : TRUE

Max(a, b) == IF a > b THEN a ELSE b
Min(a, b) == IF a < b THEN a ELSE b

----------------------------------------------------------------------------
(* Inputs: price rows, raw policy outputs, constructor parameters *)

PriceSet == {800, 1000, 2000}
ActionSet == {Rat(-2, 1), Zero, Rat(1, 2), Rat(2, 1)}
TrainPriceSet == {1000, 2000}
TrainActionSet == {Rat(-2, 1), One}

fee_rate == Rat(1, 1000)
initial_balance == Int2Rat(InitialBalance)
max_drawdown_allowed == Rat(10, 100)
min_equity_fraction == Rat(1, 10)
trade_threshold == Rat(1, 100)

\* the shortest dataset _load_data of src/btc_env.py accepts
NumRows == MaxEpisodeSteps + Lookback + 1
\* the shortest dataset on which reset of src/train/btc_env.py can draw a start
TrainRows == MaxEpisodeSteps + 2 * Lookback + 1
\* a dataset one row too short for an episode
ShortRows == MaxEpisodeSteps + Lookback

NoValue == [n |-> 0, d |-> 0]

data_length == Len(data)
Close(i) == data[i + 1]

----------------------------------------------------------------------------
(* Observation windows: a window is the sequence of the row numbers it holds *)

\* DataFrame.iloc[start:end] on n rows, with Python's slice rules
ILoc(start, end, n) ==
    LET s == IF start < 0 THEN Max(start + n, 0) ELSE Min(start, n)
        e == IF end < 0 THEN Max(end + n, 0) ELSE Min(end, n)
    IN  IF e > s THEN [k \in 1..(e - s) |-> s + k - 1] ELSE << >>

Repeat(row, count) == [k \in 1..count |-> row]

\* the forced adjustment at the end of _get_observation (src/btc_env.py)
AdjustRows(rows) ==
    IF Len(rows) = lookback THEN rows
    ELSE IF Len(rows) < lookback
         THEN (IF Len(rows) = 0 THEN rows
               ELSE Repeat(rows[1], lookback - Len(rows)) \o rows)
         ELSE SubSeq(rows, Len(rows) - lookback + 1, Len(rows))

\* mutant: the window is padded with its latest row
GetObservationPadLast(step, n) ==
    IF step < lookback
    THEN LET real_data == ILoc(0, step + 1, n)
         IN  AdjustRows(real_data \o Repeat(real_data[Len(real_data)],
                                            lookback - (step + 1)))
    ELSE AdjustRows(ILoc(step - lookback + 1, step + 1, n))

GetObservation(step, n) ==
    IF step < lookback
    THEN LET available == step + 1
             repeat_count == lookback - available
             start_idx == Max(0, step - available + 1)
             end_idx == step + 1
             real_data == ILoc(start_idx, end_idx, n)
         IN  AdjustRows(IF repeat_count > 0
                        THEN Repeat(real_data[1], repeat_count) \o real_data
                        ELSE real_data)
    ELSE AdjustRows(ILoc(step - lookback + 1, step + 1, n))

\* _get_observation of src/train/btc_env.py: no padding, window ends before the cursor
TrainGetObservation(step, n) == ILoc(step - lookback, step, n)

----------------------------------------------------------------------------
(* The position/equity engine of src/btc_env.py *)

\* mutant: the policy output is trusted as already bounded
ClipNone(a) == a

\* np.clip(float(action[0]), -1.0, 1.0)
Clip(a) == IF RLess(a, RNeg(One)) THEN RNeg(One) ELSE IF RLess(One, a) THEN One ELSE a

price_return(cur, next) == RDiv(Int2Rat(next - cur), Int2Rat(cur))

TradeFee(target, pos, cur) == RMul(RMul(RAbs(RSub(target, pos)), Int2Rat(cur)), fee_rate)

IsTrade(target, pos) == RLess(trade_threshold, RAbs(RSub(target, pos)))

\* mutant: the fee leaves the balance before the holding return is applied
NewEquityFeeFirst(eq, pos, cur, next, fee) ==
    IF pos # Zero
    THEN RMul(RSub(eq, fee), RAdd(One, RMul(pos, price_return(cur, next))))
    ELSE RSub(eq, fee)

\* equity after the holding return of the position held so far and the fee
NewEquity(eq, pos, cur, next, fee) ==
    LET held == IF pos # Zero
                THEN RMul(eq, RAdd(One, RMul(pos, price_return(cur, next))))
                ELSE eq
    IN  RSub(held, fee)

NewPeakFrozen(peak, eq) == peak

NewPeakLatest(peak, eq) == eq

NewPeak(peak, eq) == IF RLess(peak, eq) THEN eq ELSE peak

\* mutant: the fee is charged to the reward in full, not as a fraction of the balance
RewardAbsoluteFee(newpos, cur, next, fee) ==
    IF newpos # Zero
    THEN RSub(RMul(newpos, price_return(cur, next)), fee)
    ELSE RNeg(fee)

\* reward, computed after self.position = target_position
Reward(newpos, cur, next, fee) ==
    IF newpos # Zero
    THEN RSub(RMul(newpos, price_return(cur, next)), RDiv(fee, initial_balance))
    ELSE RNeg(RDiv(fee, initial_balance))

Drawdown(peak, eq) == RDiv(RSub(peak, eq), peak)

\* mutant: the ceiling itself already terminates the episode
TerminatedAtCeiling(peak, eq) ==
    \/ RLess(Zero, peak) /\ RLeq(max_drawdown_allowed, Drawdown(peak, eq))
    \/ RLeq(eq, RMul(initial_balance, min_equity_fraction))

\* mutant: the risk checks are skipped once the equity is not positive
TerminatedWhilePositive(peak, eq) ==
    /\ RLess(Zero, eq)
    /\ \/ RLess(Zero, peak) /\ RLess(max_drawdown_allowed, Drawdown(peak, eq))
       \/ RLeq(eq, RMul(initial_balance, min_equity_fraction))

Terminated(peak, eq) ==
    \/ RLess(Zero, peak) /\ RLess(max_drawdown_allowed, Drawdown(peak, eq))
    \/ RLeq(eq, RMul(initial_balance, min_equity_fraction))

Truncated(step, n) == step >= n - 1

Snapshot(a) ==
    [position |-> position, equity |-> equity, peak_equity |-> peak_equity,
     total_trades |-> total_trades, total_fees |-> total_fees,
     step |-> current_step, action |-> a, alive |-> alive]

NoSnapshot ==
    [position |-> Zero, equity |-> Zero, peak_equity |-> Zero,
     total_trades |-> 0, total_fees |-> Zero, step |-> 0, action |-> Zero,
     alive |-> TRUE]

Returned(op, obs, reward, terminated, truncated) ==
    [op |-> op, obs |-> obs, reward |-> reward,
     terminated |-> terminated, truncated |-> truncated]

\* _load_data of src/btc_env.py: fewer rows than an episode needs raise ValueError
LoadData(rows, lb) == Len(rows) >= MaxEpisodeSteps + lb + 1

\* _load_data of src/train/btc_env.py: the rows are returned whatever their number
TrainLoadData(rows, lb) == TRUE

\* BTCTradingEnv.__init__ left by the exception of _load_data: there is no
\* instance; data holds the rows of the file the constructor was given
NotConstructed(rows, lb) ==
    /\ data = rows
    /\ lookback = lb
    /\ current_step = 0
    /\ position = NoValue
    /\ equity = NoValue
    /\ total_trades = 0
    /\ total_fees = NoValue
    /\ ret = Returned("failed", << >>, Zero, FALSE, FALSE)
    /\ pre = NoSnapshot
    /\ alive = FALSE

\* BTCTradingEnv.__init__, after _load_data succeeded
Constructed(rows, lb) ==
    /\ data = rows
    /\ lookback = lb
    /\ current_step = 0
    /\ position = Zero
    /\ equity = initial_balance
    /\ total_trades = 0
    /\ total_fees = Zero
    /\ ret = Returned("init", << >>, Zero, FALSE, FALSE)
    /\ pre = NoSnapshot
    /\ alive = TRUE

\* start indices np.random.randint(lookback, max(lookback + 1, max_start)) draws
StartRangeToEnd(lb, n) == lb..(n - 1)

StartRange(lb, n) == lb..(Max(lb + 1, n - MaxEpisodeSteps - 1) - 1)

\* BTCTradingEnv.reset of src/btc_env.py
Reset ==
    /\ mode = "env"
    /\ ret.op # "failed"
    /\ \E start \in StartRange(lookback, data_length) :
             /\ current_step' = start
             /\ ret' = Returned("reset", GetObservation(start, data_length),
                                Zero, FALSE, FALSE)
    /\ position' = Zero
    /\ equity' = initial_balance
    /\ total_trades' = 0
    /\ total_fees' = Zero
    /\ peak_equity' = initial_balance
    /\ pre' = NoSnapshot
    /\ alive' = TRUE
    /\ UNCHANGED <<mode, lookback, data>>
    /\ UNCHANGED <<liveVars, fetch>>

\* BTCTradingEnv.step of src/btc_env.py called on the last row: early return
StepAtEnd(a) ==
    /\ mode = "env"
    /\ ret.op # "failed"
    /\ current_step >= data_length - 1
    /\ ret' = Returned("end", GetObservation(current_step, data_length),
                       Zero, TRUE, FALSE)
    /\ pre' = Snapshot(a)
    /\ alive' = FALSE
    /\ UNCHANGED <<mode, lookback, data, current_step, position, equity,
                   peak_equity, total_trades, total_fees>>
    /\ UNCHANGED <<liveVars, fetch>>

\* mutant: the cursor stays on its row
NextCursorStays(step) == step

\* self.current_step += 1
NextCursor(step) == step + 1

\* a numpy float64 divided by the Python float 0.0: inf or -inf (nan for 0),
\* with a RuntimeWarning and no exception
DivideByZero(x) ==
    [n |-> IF RLess(Zero, x) THEN 1 ELSE IF RLess(x, Zero) THEN -1 ELSE 0, d |-> 0]

\* BTCTradingEnv.step of src/btc_env.py on a row whose close is 0
StepZeroPrice(a) ==
    LET target_position == Clip(a)
        next_price == Close(current_step + 1)
        trade_fee == TradeFee(target_position, position, 0)
    IN  /\ total_fees' = RAdd(total_fees, trade_fee)
        /\ total_trades' = IF IsTrade(target_position, position)
                           THEN total_trades + 1 ELSE total_trades
        /\ current_step' = current_step + 1
        /\ IF position # Zero
           THEN \* price_return divides two Python floats: ZeroDivisionError
                /\ ret' = Returned("error", << >>, Zero, FALSE, FALSE)
                /\ UNCHANGED <<equity, position, peak_equity, alive>>
           ELSE LET new_equity == RSub(equity, trade_fee)
                    new_peak == NewPeak(peak_equity, new_equity)
                    terminated == Terminated(new_peak, new_equity)
                    reward == IF target_position # Zero
                              THEN DivideByZero(RMul(target_position,
                                                     Int2Rat(next_price)))
                              ELSE RNeg(RDiv(trade_fee, initial_balance))
                IN  /\ equity' = new_equity
                    /\ position' = target_position
                    /\ peak_equity' = new_peak
                    /\ ret' = Returned("step",
                                       GetObservation(current_step + 1, data_length),
                                       reward, terminated,
                                       Truncated(current_step + 1, data_length))
                    /\ alive' = (alive /\ ~terminated)

\* BTCTradingEnv.step of src/btc_env.py
Step(a) ==
    /\ mode = "env"
    /\ ret.op # "failed"
    /\ current_step < data_length - 1
    /\ IF Close(current_step) = 0 THEN StepZeroPrice(a) ELSE
       LET target_position == Clip(a)
           current_price == Close(current_step)
           next_step == NextCursor(current_step)
           next_price == Close(next_step)
       IN  \* each local is computed once and bound to its value
           \E trade_fee \in {TradeFee(target_position, position, current_price)} :
           \E new_equity \in {NewEquity(equity, position, current_price,
                                        next_price, trade_fee)} :
           \E new_peak \in {NewPeak(peak_equity, new_equity)} :
           \E terminated \in {Terminated(new_peak, new_equity)} :
           /\ total_fees' = RAdd(total_fees, trade_fee)
           /\ total_trades' = IF IsTrade(target_position, position)
                              THEN total_trades + 1 ELSE total_trades
           /\ current_step' = next_step
           /\ equity' = new_equity
           /\ position' = target_position
           /\ peak_equity' = new_peak
           /\ ret' = Returned("step",
                              GetObservation(next_step, data_length),
                              Reward(target_position, current_price, next_price, trade_fee),
                              terminated,
                              Truncated(next_step, data_length))
           /\ alive' = (alive /\ ~terminated)
    /\ pre' = Snapshot(a)
    /\ UNCHANGED <<mode, lookback, data>>
    /\ UNCHANGED <<liveVars, fetch>>

----------------------------------------------------------------------------
(* The older engine of src/train/btc_env.py, the one train.py imports *)

TradeCost(target, pos) == RMul(RAbs(RSub(target, pos)), fee_rate)

\* equity *= (1 + position_return - trade_cost), skipped on the first rows
TrainNewEquity(eq, pos, prev, cur, cost, step) ==
    IF step > lookback
    THEN RMul(eq, RSub(RAdd(One, RMul(pos, price_return(prev, cur))), cost))
    ELSE eq

\* reward = position_return - trade_cost with the position held before the step
TrainReward(pos, prev, cur, cost, step, neweq) ==
    LET base == IF step > lookback
                THEN RSub(RMul(pos, price_return(prev, cur)), cost)
                ELSE Zero
    IN  IF RLess(neweq, RMul(initial_balance, Rat(1, 2)))
        THEN RSub(base, One) ELSE base

TrainTerminated(step, n, neweq) ==
    \/ step >= n - 1
    \/ RLess(neweq, RMul(initial_balance, Rat(1, 2)))

TrainTruncated(step) == (step - lookback) >= MaxEpisodeSteps

\* BTCTradingEnv.reset of src/train/btc_env.py
TrainReset ==
    /\ mode = "train"
    /\ LET max_start == data_length - MaxEpisodeSteps - lookback
       IN  IF max_start <= 0 \/ lookback >= max_start
           THEN \* ValueError, raised before any field is assigned
                /\ ret' = Returned("error", << >>, Zero, FALSE, FALSE)
                /\ UNCHANGED <<current_step, position, equity, total_trades,
                               total_fees, pre, alive>>
           ELSE /\ \E start \in lookback..(max_start - 1) :
                     /\ current_step' = start
                     /\ ret' = Returned("reset",
                                        TrainGetObservation(start, data_length),
                                        Zero, FALSE, FALSE)
                /\ position' = Zero
                /\ equity' = initial_balance
                /\ total_trades' = 0
                /\ total_fees' = Zero
                /\ pre' = NoSnapshot
                /\ alive' = TRUE
    /\ UNCHANGED <<mode, lookback, data, peak_equity>>
    /\ UNCHANGED <<liveVars, fetch>>

\* BTCTradingEnv.step of src/train/btc_env.py
TrainStep(a) ==
    /\ mode = "train"
    /\ current_step <= lookback + MaxTrainAhead
    /\ IF current_step >= data_length
       THEN \* self.data.iloc[self.current_step] raises IndexError
            /\ ret' = Returned("error", << >>, Zero, FALSE, FALSE)
            /\ pre' = Snapshot(a)
            /\ UNCHANGED <<current_step, position, equity, total_trades,
                           total_fees, alive>>
       ELSE LET target_position == Clip(a)
                current_price == Close(current_step)
                prev_price == Close(Max(current_step - 1, 0))
            IN  \* each local is computed once and bound to its value
                \E trade_cost \in {TradeCost(target_position, position)} :
                \E new_equity \in {TrainNewEquity(equity, position, prev_price,
                                                  current_price, trade_cost,
                                                  current_step)} :
                \E terminated \in {TrainTerminated(current_step + 1, data_length,
                                                   new_equity)} :
                /\ equity' = new_equity
                /\ position' = target_position
                /\ total_trades' = IF IsTrade(target_position, position)
                                   THEN total_trades + 1 ELSE total_trades
                /\ total_fees' = RAdd(total_fees, RMul(trade_cost, new_equity))
                /\ current_step' = current_step + 1
                /\ ret' = Returned("step",
                                   TrainGetObservation(current_step + 1, data_length),
                                   TrainReward(position, prev_price, current_price,
                                               trade_cost, current_step, new_equity),
                                   terminated,
                                   TrainTruncated(current_step + 1))
                /\ pre' = Snapshot(a)
                /\ alive' = (alive /\ ~terminated)
    /\ UNCHANGED <<mode, lookback, data, peak_equity>>
    /\ UNCHANGED <<liveVars, fetch>>

----------------------------------------------------------------------------
(* The live tick handlers and the decision ledger:                          *)
(* src/app/main.py (modes "live" and "faulty") and src/app/main_simple.py   *)
(* (mode "simple"). In mode "live" the local disk works and the ledger      *)
(* holds only what the service wrote and the candle file is complete; in    *)
(* the other two modes reads and writes of a day partition may fail, a      *)
(* partition may hold a line that is not a record, and the candle file may  *)
(* lack a column.                                                           *)

TickIds == 1..MaxTicks
TimeStamps == {0, 59, 60, 86400}
LiveActionSet == {Rat(-2, 1), Zero, One}
LiveReturnSet == {Rat(-1, 10)}
live_fee_rate == Rat(1, 1000)

\* the inputs of a tick where the disk, the ledger or the candle file are at fault
FaultTimeStamps == {0, 60, 86400}
FaultActionSet == {One}
TickTimes == IF mode = "live" THEN TimeStamps ELSE FaultTimeStamps
TickActions == IF mode = "live" THEN LiveActionSet ELSE FaultActionSet

\* the candle file of the bucket: with all its columns, or without a price column
CandleFiles == IF mode = "live" THEN {"complete"}
               ELSE {"complete", "nocolumn", "millis"}

\* np.random.uniform(-0.5, 0.5) and 1 + np.random.normal(0, 0.001) of main_simple.py
SimpleActionSet == {Rat(-1, 2), Rat(1, 3)}
SimpleNoiseSet == {Rat(1, 100)}

\* datetime.fromtimestamp(ts).strftime("%Y%m%d"): the day partition of a timestamp
DayOf(ts) == ts \div 86400
Days == {DayOf(ts) : ts \in TimeStamps}

\* mutant: the scan compares the timestamps themselves
MinuteKeyExact(ts) == ts

\* decision_data["timestamp"] // 60 * 60
MinuteKey(ts) == (ts \div 60) * 60

RECURSIVE Pow10(_)
Pow10(k) == IF k = 0 THEN 1 ELSE 10 * Pow10(k - 1)

\* the first k decimal digits of rem / d and the remainder left after them
RECURSIVE LongDiv(_, _, _)
LongDiv(rem, d, k) ==
    IF k = 0 THEN [q |-> 0, r |-> rem]
    ELSE LET p == LongDiv(rem, d, k - 1)
         IN  [q |-> p.q * 10 + (p.r * 10) \div d, r |-> (p.r * 10) % d]

\* round(x, k) of Python: k decimals, ties to the even digit
Round(x, k) ==
    LET a == Abs(x.n)
        f == LongDiv(a % x.d, x.d, k)
        scaled == (a \div x.d) * Pow10(k) + f.q
        up == 2 * f.r > x.d \/ (2 * f.r = x.d /\ scaled % 2 = 1)
        m == IF up THEN scaled + 1 ELSE scaled
    IN  Rat(IF x.n < 0 THEN -m ELSE m, Pow10(k))

NoDecision == [timestamp |-> 0, action |-> Zero, position |-> Zero,
               equity |-> Zero, trade_count |-> 0]

\* a line of a day partition on which json.loads raises
Malformed == [timestamp |-> -1, action |-> Zero, position |-> Zero,
              equity |-> Zero, trade_count |-> 0]

LiveState(p, e, c) == [position |-> p, equity |-> e, trade_count |-> c]

\* current_position = 0.0, current_equity = 1.0, trade_count = 0
FreshState == LiveState(Zero, One, 0)

NewTick == [pc |-> "new", status |-> 0, candles |-> "none",
            before |-> FreshState, seq |-> 0,
            decision |-> NoDecision, found |-> FALSE, backup_ok |-> FALSE,
            error |-> "none"]

\* module state after startup, the partition of day 0 holding the given lines
LiveStarted(lines) ==
    /\ current_position = FreshState.position
    /\ current_equity = FreshState.equity
    /\ trade_count = FreshState.trade_count
    /\ ticks = [i \in TickIds |-> NewTick]
    /\ loop = 0
    /\ primary = [d \in Days |-> IF d = 0 THEN lines ELSE << >>]
    /\ backup = [d \in Days |-> << >>]

\* module state of src/app/main.py after startup, with an empty log directory
LiveFresh == LiveStarted(<< >>)

SimIdle ==
    /\ Constructed(<< >>, Lookback)
    /\ peak_equity = NoValue

InitLive ==
    /\ mode = "live"
    /\ FetchIdle
    /\ SimIdle
    /\ LiveFresh

\* src/app/main.py on a disk that may fail, the day partition possibly damaged
InitFaulty ==
    /\ mode = "faulty"
    /\ FetchIdle
    /\ SimIdle
    /\ \E lines \in {<< >>, <<Malformed>>} : LiveStarted(lines)

\* src/app/main_simple.py on the same disk
InitSimple ==
    /\ mode = "simple"
    /\ FetchIdle
    /\ SimIdle
    /\ \E lines \in {<< >>, <<Malformed>>} : LiveStarted(lines)

MainModes == {"live", "faulty"}
ServiceModes == {"live", "faulty", "simple"}

\* whether open(), read and write of a day partition succeed
IoOutcomes == IF mode = "live" THEN {TRUE} ELSE BOOLEAN

\* the number of ticks that have updated the paper-trading state
Committed == Cardinality({j \in TickIds : ticks[j].seq > 0})

\* current_equity *= 1 + current_position * price_return - position_change * 0.001
LiveNewEquity(eq, pos, target, r) ==
    RMul(eq, RSub(RAdd(One, RMul(pos, r)),
                  RMul(RAbs(RSub(target, pos)), live_fee_rate)))

\* trading_tick answering with an error before any state is touched:
\* 503 model not loaded, 500 candle fetch failed, 400 fewer candles than lookback
TickRejected(i, code) ==
    /\ mode \in MainModes
    /\ loop = 0
    /\ ticks[i].pc = "new"
    /\ IF i = 1 THEN TRUE ELSE ticks[i - 1].pc # "new"
    /\ ticks' = [ticks EXCEPT ![i] =
                   [@ EXCEPT !.pc = "failed", !.status = code,
                             !.candles = IF code = 500 THEN "unavailable"
                                         ELSE IF code = 400 THEN "short"
                                         ELSE "none"]]
    /\ UNCHANGED <<current_position, current_equity, trade_count, loop,
                   primary, backup>>
    /\ UNCHANGED <<mode, simVars, fetch>>

\* trading_tick up to its await of get_recent_candles_from_cloud_run, which
\* fills every missing column except timestamp with 0.0 and returns the frame;
\* the await is where the event loop may turn to another request
TickFetch(i, file) ==
    /\ mode \in MainModes
    /\ loop = 0
    /\ ticks[i].pc = "new"
    /\ IF i = 1 THEN TRUE ELSE ticks[i - 1].pc # "new"
    /\ ticks' = [ticks EXCEPT ![i] =
                   [@ EXCEPT !.pc = "fetched", !.candles = file]]
    /\ UNCHANGED <<current_position, current_equity, trade_count, loop,
                   primary, backup>>
    /\ UNCHANGED <<mode, simVars, fetch>>

\* mutant: every request works on a copy of the state made at startup
StateReadPrivate(i) == ticks[i].before

\* the globals are read after the last await of the handler
StateRead(i) == LiveState(current_position, current_equity, trade_count)

\* datetime.fromtimestamp(current_timestamp, timezone.utc) raises ValueError
\* (year out of range) on a timestamp in milliseconds, the unit in which the
\* fetchers store it and in which the loader derives a missing column
FromTimestampRaises(file) == file = "millis"

\* trading_tick after the candles arrived: predict, update the paper-trading
\* state, build the decision record, queue log_decision as a background task
\* and return the response
Tick(i, ts, a, r) ==
    /\ mode \in MainModes
    /\ loop = 0
    /\ ticks[i].pc = "fetched"
    /\ LET seen == StateRead(i)
           target_position == Clip(a)
           new_count == IF IsTrade(target_position, seen.position)
                        THEN seen.trade_count + 1 ELSE seen.trade_count
           new_equity == LiveNewEquity(seen.equity, seen.position,
                                       target_position, r)
       IN  /\ trade_count' = new_count
           /\ current_equity' = new_equity
           /\ current_position' = target_position
           /\ IF FromTimestampRaises(ticks[i].candles)
              THEN \* except Exception: HTTP 500, nothing queued
                   ticks' = [ticks EXCEPT ![i] =
                               [@ EXCEPT !.pc = "failed", !.status = 500,
                                         !.before = seen, !.seq = Committed + 1,
                                         !.error = "decision"]]
              ELSE ticks' = [ticks EXCEPT ![i] =
                               [@ EXCEPT !.pc = "queued", !.status = 200,
                                         !.before = seen, !.seq = Committed + 1,
                                         !.decision = [timestamp |-> ts,
                                                       action |-> target_position,
                                                       position |-> target_position,
                                                       equity |-> new_equity,
                                                       trade_count |-> new_count]]]
    /\ UNCHANGED <<loop, primary, backup>>
    /\ UNCHANGED <<mode, simVars, fetch>>

\* trading_tick of src/app/main_simple.py up to its call of log_decision, which
\* it awaits itself: the handler keeps the event loop until log_decision is over
SimpleTick(i, ts, a, g) ==
    /\ mode = "simple"
    /\ loop = 0
    /\ ticks[i].pc = "new"
    /\ IF i = 1 THEN TRUE ELSE ticks[i - 1].pc # "new"
    /\ LET seen == LiveState(current_position, current_equity, trade_count)
           new_count == IF IsTrade(a, current_position)
                        THEN trade_count + 1 ELSE trade_count
           new_equity == RMul(current_equity, RAdd(One, g))
       IN  /\ trade_count' = new_count
           /\ current_position' = a
           /\ current_equity' = new_equity
           /\ ticks' = [ticks EXCEPT ![i] =
                          [@ EXCEPT !.pc = "queued", !.status = 200,
                                    !.before = seen,
                                    !.seq = Committed + 1,
                                    !.decision = [timestamp |-> ts,
                                                  action |-> Round(a, 4),
                                                  position |-> Round(a, 4),
                                                  equity |-> Round(new_equity, 6),
                                                  trade_count |-> new_count]]]
    /\ loop' = i
    /\ UNCHANGED <<primary, backup>>
    /\ UNCHANGED <<mode, simVars, fetch>>

\* the lines of a partition that carry the minute of ts
SameMinute(lines, ts) ==
    {k \in 1..Len(lines) : MinuteKey(lines[k].timestamp) = MinuteKey(ts)}

\* the line at which the scan loop stops: the first one that json.loads
\* rejects or that carries the minute of ts; 0 when the loop runs to the end
ScanStop(lines, ts) ==
    LET stops == {k \in 1..Len(lines) : lines[k] = Malformed} \cup SameMinute(lines, ts)
    IN  IF stops = {} THEN 0 ELSE CHOOSE k \in stops : \A m \in stops : k <= m

\* except Exception: main.py logs and re-raises, main_simple.py only logs
OuterExcept(m) == IF m = "simple" THEN "logged" ELSE "raised"

\* mutant: a failed record puts back the state its tick started from
AfterRecordFailureRestores(i) == ticks[i].before

\* log_decision holds no reference to the paper-trading globals
AfterRecordFailure(i) == LiveState(current_position, current_equity, trade_count)

\* mutant: log_decision awaits between its scan and its append
LoopAfterScanYields(i) == 0

\* log_decision has no await: the event loop stays with it until it returns
LoopAfterScan(i) == i

\* mutant: a record of a minute already in the partition replaces the line
OnDuplicateReplaces(lines, k, rec) == [lines EXCEPT ![k] = rec]

\* a record whose minute is already in the partition is skipped: log and return
OnDuplicate(lines, k, rec) == lines

\* log_decision, the idempotency scan of the day partition
LogScan(i, io) ==
    /\ mode \in ServiceModes
    /\ loop = (IF mode = "simple" THEN i ELSE 0)
    /\ ticks[i].pc = "queued"
    /\ LET ts == ticks[i].decision.timestamp
           lines == primary[DayOf(ts)]
           stop == ScanStop(lines, ts)
           error == IF ~io THEN "read"
                    ELSE IF stop = 0 THEN "none"
                    ELSE IF lines[stop] = Malformed THEN "malformed"
                    ELSE "none"
           after == IF error = "none"
                    THEN LiveState(current_position, current_equity, trade_count)
                    ELSE AfterRecordFailure(i)
       IN  /\ IF error # "none"
              THEN /\ ticks' = [ticks EXCEPT ![i] =
                                  [@ EXCEPT !.pc = OuterExcept(mode),
                                            !.error = error]]
                   /\ loop' = 0
                   /\ primary' = primary
              ELSE IF stop # 0
              THEN /\ ticks' = [ticks EXCEPT ![i] = [@ EXCEPT !.pc = "logged",
                                                               !.found = TRUE]]
                   /\ loop' = 0
                   /\ primary' = [primary EXCEPT ![DayOf(ts)] =
                                     OnDuplicate(@, stop, ticks[i].decision)]
              ELSE /\ ticks' = [ticks EXCEPT ![i] = [@ EXCEPT !.pc = "append"]]
                   /\ loop' = LoopAfterScan(i)
                   /\ primary' = primary
           /\ current_position' = after.position
           /\ current_equity' = after.equity
           /\ trade_count' = after.trade_count
    /\ UNCHANGED backup
    /\ UNCHANGED <<mode, simVars, fetch>>

\* mutant: the partition is opened for writing, not for appending
WriteLineTruncating(lines, rec) == <<rec>>

\* open(local_log_path, "a") and write of one line
WriteLine(lines, rec) == Append(lines, rec)

\* mutant: the record is filled from the globals when the write runs
RecordToWriteLive(i) ==
    [ticks[i].decision EXCEPT !.position = current_position,
                              !.equity = current_equity,
                              !.trade_count = trade_count]

\* log_decision serializes the dict its caller built from the tick's own values
RecordToWrite(i) == ticks[i].decision

\* log_decision, the append of the serialized record to the day partition
LogAppend(i, io) ==
    /\ mode \in ServiceModes
    /\ loop \in {0, i}
    /\ ticks[i].pc = "append"
    /\ LET day == DayOf(ticks[i].decision.timestamp)
           after == IF io
                    THEN LiveState(current_position, current_equity, trade_count)
                    ELSE AfterRecordFailure(i)
       IN  /\ IF io
              THEN /\ primary' = [primary EXCEPT ![day] =
                                     WriteLine(@, RecordToWrite(i))]
                   /\ ticks' = [ticks EXCEPT ![i] = [@ EXCEPT !.pc = "upload"]]
                   /\ loop' = i
              ELSE /\ primary' = primary
                   /\ ticks' = [ticks EXCEPT ![i] =
                                  [@ EXCEPT !.pc = OuterExcept(mode),
                                            !.error = "write"]]
                   /\ loop' = 0
           /\ current_position' = after.position
           /\ current_equity' = after.equity
           /\ trade_count' = after.trade_count
    /\ UNCHANGED backup
    /\ UNCHANGED <<mode, simVars, fetch>>

\* mutant: a failed upload escapes log_decision
UploadOutcomeRaises(ok) == IF ok THEN "logged" ELSE "raised"

\* the upload runs in its own try/except, which only logs a warning
UploadOutcome(ok) == "logged"

\* log_decision, the upload of the whole day partition to the bucket
LogUpload(i, ok) ==
    /\ mode \in ServiceModes
    /\ loop = i
    /\ ticks[i].pc = "upload"
    /\ LET day == DayOf(ticks[i].decision.timestamp)
           after == IF ok
                    THEN LiveState(current_position, current_equity, trade_count)
                    ELSE AfterRecordFailure(i)
       IN  /\ backup' = IF ok THEN [backup EXCEPT ![day] = primary[day]] ELSE backup
           /\ current_position' = after.position
           /\ current_equity' = after.equity
           /\ trade_count' = after.trade_count
    /\ ticks' = [ticks EXCEPT ![i] = [@ EXCEPT !.pc = UploadOutcome(ok),
                                                !.backup_ok = ok]]
    /\ loop' = 0
    /\ UNCHANGED primary
    /\ UNCHANGED <<mode, simVars, fetch>>

----------------------------------------------------------------------------
(* The batched candle fetch: fetch_btc_data_cloud of src/cloudrun-fetch-data
   and fetch_btc_data of src/fetch_data.py. Timestamps count candle intervals;
   since is 0 and end_timestamp is FetchSpan; a response holds at most MaxBatch
   candles, which stands for the limit of 1000 *)

FetchModes == {"cloud", "local"}

end_timestamp == FetchSpan

\* what exchange.fetch_ohlcv(since=current_since, limit=1000) may do: return
\* candles from since on (last is the timestamp of the latest one), return an
\* empty list, or raise
Responses(since) ==
    {[kind |-> "data", last |-> t] : t \in since..(since + MaxBatch - 1)}
        \cup {[kind |-> "empty", last |-> 0], [kind |-> "exception", last |-> 0]}

\* the attempts made on the batch in hand, counted up to max_retries + 1
CountAttempt(n) == Min(n + 1, max_retries + 1)

\* if not all_ohlcv: raise ValueError
AfterLoop(has_data) == IF has_data THEN "done" ELSE "raised"

InitFetch ==
    /\ \E m \in FetchModes : mode = m
    /\ SimIdle
    /\ LiveFresh
    /\ fetch = [NoFetch EXCEPT !.pc = "outer"]

\* while current_since < end_timestamp, of either fetcher
LoopTest ==
    /\ mode \in FetchModes
    /\ fetch.pc = "outer"
    /\ fetch' = IF fetch.current_since < end_timestamp
                THEN [fetch EXCEPT !.pc = "inner", !.retry_count = 0,
                                   !.batch_success = FALSE,
                                   !.attempts = IF mode = "cloud" THEN 0 ELSE @]
                ELSE [fetch EXCEPT !.pc = AfterLoop(fetch.has_data)]
    /\ UNCHANGED <<mode, simVars, liveVars>>

\* one pass of the retry loop of fetch_btc_data_cloud
CloudAttempt(resp) ==
    /\ mode = "cloud"
    /\ fetch.pc = "inner"
    /\ fetch.retry_count < max_retries /\ ~fetch.batch_success
    /\ fetch' =
         IF resp.kind = "empty"
         THEN \* batch_success = True; break: leaves the retry loop only
              [fetch EXCEPT !.pc = "outer", !.batch_success = TRUE,
                            !.attempts = CountAttempt(@)]
         ELSE IF resp.kind = "data"
         THEN [fetch EXCEPT !.pc = "outer", !.batch_success = TRUE,
                            !.has_data = TRUE,
                            !.current_since = resp.last + 1,
                            !.attempts = CountAttempt(@)]
         ELSE IF fetch.retry_count + 1 < max_retries
         THEN [fetch EXCEPT !.retry_count = @ + 1,
                            !.attempts = CountAttempt(@)]
         ELSE \* the batch is given up: skip 1000 intervals ahead
              [fetch EXCEPT !.pc = "outer", !.retry_count = @ + 1,
                            !.batch_success = TRUE,
                            !.current_since = @ + MaxBatch,
                            !.attempts = CountAttempt(@)]
    /\ UNCHANGED <<mode, simVars, liveVars>>

\* the body of the loop of fetch_btc_data
LocalAttempt(resp) ==
    /\ mode = "local"
    /\ fetch.pc = "inner"
    /\ fetch' =
         IF resp.kind = "empty"
         THEN \* break
              [fetch EXCEPT !.pc = AfterLoop(fetch.has_data),
                            !.attempts = CountAttempt(@)]
         ELSE IF resp.kind = "data"
         THEN [fetch EXCEPT !.pc = "outer", !.has_data = TRUE,
                            !.current_since = resp.last + 1,
                            !.attempts = 0]
         ELSE \* time.sleep(2); continue
              [fetch EXCEPT !.pc = "outer", !.attempts = CountAttempt(@)]
    /\ UNCHANGED <<mode, simVars, liveVars>>

NextFetch ==
    \/ LoopTest
    \/ \E resp \in Responses(fetch.current_since) : CloudAttempt(resp)
    \/ \E resp \in Responses(fetch.current_since) : LocalAttempt(resp)

----------------------------------------------------------------------------
(* Specifications *)

vars == <<mode, simVars, liveVars, fetch>>

InitEnv ==
    /\ mode = "env"
    /\ FetchIdle
    /\ \E n \in {ShortRows, NumRows} : \E rows \in [1..n -> PriceSet] :
          IF LoadData(rows, Lookback)
          THEN Constructed(rows, Lookback) /\ peak_equity = initial_balance
          ELSE NotConstructed(rows, Lookback) /\ peak_equity = NoValue
    /\ LiveFresh

InitTrain ==
    /\ mode = "train"
    /\ FetchIdle
    /\ \E n \in {ShortRows, TrainRows} : \E rows \in [1..n -> TrainPriceSet] :
          IF TrainLoadData(rows, Lookback)
          THEN Constructed(rows, Lookback)
          ELSE NotConstructed(rows, Lookback)
    /\ peak_equity = NoValue
    /\ LiveFresh

NextEnv ==
    \/ Reset
    \/ \E a \in ActionSet : Step(a)
    \/ \E a \in ActionSet : StepAtEnd(a)

NextTrain ==
    \/ TrainReset
    \/ \E a \in TrainActionSet : TrainStep(a)

\* datasets with rows whose close is 0; _calculate_features and dropna leave no
\* two such rows next to each other (the second has a nan return)
ZeroPriceSet == {0, 1000}

Loadable(rows) == \A k \in 1..(Len(rows) - 1) : rows[k] # 0 \/ rows[k + 1] # 0

InitZero ==
    /\ mode = "env"
    /\ FetchIdle
    /\ \E rows \in [1..NumRows -> ZeroPriceSet] :
          /\ Loadable(rows)
          /\ Constructed(rows, Lookback)
    /\ peak_equity = initial_balance
    /\ LiveFresh

SpecZero == InitZero /\ [][NextEnv]_vars

\* the evaluation loop of train.py: reset, then step until terminated or
\* truncated is returned; an exception ends the loop
EpisodeOver == ret.terminated \/ ret.truncated

Running == ret.op \in {"reset", "step"} /\ ~EpisodeOver

DriverReset ==
    /\ ret.op = "init" \/ (ret.op \in {"reset", "step"} /\ EpisodeOver)
    /\ IF mode = "env" THEN Reset ELSE TrainReset

DriverStep ==
    /\ Running
    /\ IF mode = "env"
       THEN \E a \in ActionSet :
               IF current_step >= data_length - 1 THEN StepAtEnd(a) ELSE Step(a)
       ELSE \E a \in TrainActionSet : TrainStep(a)

NextDrive == DriverReset \/ DriverStep

\* one engine per lookback over a flat price series, driven by a policy that holds
InitObs ==
    /\ mode = "env"
    /\ FetchIdle
    /\ \E lb \in 1..MaxLookback : \E p \in PriceSet :
           Constructed([i \in 1..(MaxEpisodeSteps + lb + 1) |-> p], lb)
    /\ peak_equity = initial_balance
    /\ LiveFresh

NextObs ==
    \/ Reset
    \/ Step(Zero)
    \/ StepAtEnd(Zero)

SpecObs == InitObs /\ [][NextObs]_vars

SpecEnv == InitEnv /\ [][NextEnv]_vars

InitSim == InitEnv \/ InitTrain
NextSim == NextEnv \/ NextTrain
SpecSim == InitSim /\ [][NextSim]_vars

\* the loop body has no blocking call: a running episode keeps being stepped
SpecDrive == InitSim /\ [][NextDrive]_vars /\ WF_vars(DriverStep)

NextLive ==
    \/ \E i \in TickIds : \E code \in {400, 500, 503} : TickRejected(i, code)
    \/ \E i \in TickIds : \E file \in CandleFiles : TickFetch(i, file)
    \/ \E i \in TickIds : \E ts \in TickTimes : \E a \in TickActions :
          \E r \in LiveReturnSet : Tick(i, ts, a, r)
    \/ \E i \in TickIds : \E io \in IoOutcomes : LogScan(i, io)
    \/ \E i \in TickIds : \E io \in IoOutcomes : LogAppend(i, io)
    \/ \E i \in TickIds : \E ok \in BOOLEAN : LogUpload(i, ok)

NextSimple ==
    \E i \in TickIds : \E ts \in TickTimes : \E a \in SimpleActionSet :
        \E g \in SimpleNoiseSet : SimpleTick(i, ts, a, g)

SpecLive == InitLive /\ [][NextLive]_vars

SpecFaulty == InitFaulty /\ [][NextLive]_vars

InitRecord == InitFaulty \/ InitSimple
NextRecord == NextLive \/ NextSimple
SpecRecord == InitRecord /\ [][NextRecord]_vars

\* the loops never block for good: sleep returns and fetch_ohlcv answers or raises
SpecFetch == InitFetch /\ [][NextFetch]_vars /\ WF_vars(NextFetch)

Init == InitEnv \/ InitTrain \/ InitLive \/ InitFaulty \/ InitSimple \/ InitFetch
Next == NextEnv \/ NextTrain \/ NextLive \/ NextSimple \/ NextFetch
Spec == Init /\ [][Next]_vars

----------------------------------------------------------------------------
(* Properties of the simulator *)

Stepped == ret.op = "step"
EnvStepped == mode = "env" /\ Stepped
Ten == Int2Rat(10)
PrevPrice == Close(pre.step)
NextPrice == Close(pre.step + 1)
PaidFee == RMul(RMul(RAbs(RSub(position, pre.position)), Int2Rat(PrevPrice)), fee_rate)
StepReturn == RDiv(RSub(Int2Rat(NextPrice), Int2Rat(PrevPrice)), Int2Rat(PrevPrice))
ExceedsCeiling(peak, eq) == RLess(peak, RMul(Ten, RSub(peak, eq)))

\* C4: after a step of src/btc_env.py the equity is
\* old_equity * (1 + old_position * (next - current) / current) - trade_fee,
\* the fee |target - old_position| * current * fee_rate being subtracted as an
\* absolute amount; from a flat position the equity is old_equity - trade_fee.
C4_EquityUpdate ==
    EnvStepped =>
        /\ equity = RSub(RMul(pre.equity, RAdd(One, RMul(pre.position, StepReturn))),
                         PaidFee)
        /\ (pre.position = Zero => equity = RSub(pre.equity, PaidFee))

C4_Witness ==
    /\ EnvStepped
    /\ pre.position = One
    /\ position = Rat(1, 2)
    /\ PrevPrice = 800
    /\ NextPrice = 1000
    /\ equity = RSub(RMul(pre.equity, Rat(5, 4)), Rat(2, 5))

\* C6: a step of src/btc_env.py returns terminated exactly when the drawdown
\* from the peak after the step exceeds 0.10 (or the equity is at most 10% of
\* the initial balance): TRUE on the first step that crosses the ceiling,
\* FALSE on every step that leaves the drawdown at or below it.
C6_DrawdownExact ==
    EnvStepped =>
        /\ ExceedsCeiling(peak_equity, equity) => ret.terminated
        /\ (~ExceedsCeiling(peak_equity, equity)
             /\ RLess(RDiv(initial_balance, Ten), equity)) => ~ret.terminated

C6_Witness ==
    /\ EnvStepped
    /\ pre.alive
    /\ ~ExceedsCeiling(pre.peak_equity, pre.equity)
    /\ ExceedsCeiling(peak_equity, equity)
    /\ ret.terminated

\* C7: a step of src/btc_env.py that leaves the equity at or below zero returns
\* terminated on that same step, so while every step of the episode returned
\* terminated = FALSE the equity is strictly positive.
C7_EquityPositive ==
    mode = "env" =>
        /\ (Stepped /\ RLeq(equity, Zero)) => ret.terminated
        /\ alive => RLess(Zero, equity)

C7_Witness ==
    /\ EnvStepped
    /\ pre.alive
    /\ RLess(Zero, pre.equity)
    /\ RLeq(equity, Zero)
    /\ ret.terminated

\* C5 as stated: the reward of every step, of either simulator, is
\* new_position * (next - current) / current - trade_fee / initial_balance.
C5_RewardPostUpdate ==
    Stepped =>
        ret.reward = RSub(RMul(position, StepReturn), RDiv(PaidFee, initial_balance))

LastPrice == Close(Max(pre.step - 1, 0))
LastReturn == RDiv(RSub(Int2Rat(PrevPrice), Int2Rat(LastPrice)), Int2Rat(LastPrice))
PaidCost == RMul(RAbs(RSub(position, pre.position)), fee_rate)
HalfBalance == RDiv(initial_balance, Int2Rat(2))

\* C5 amended: the reward of a step of src/btc_env.py is
\* new_position * (next - current) / current - trade_fee / initial_balance
\* (so -trade_fee / initial_balance when the new position is 0); a step of
\* src/train/btc_env.py instead pays old_position * (current - previous) /
\* previous - |target - old_position| * fee_rate, 0 while current_step <=
\* lookback, and 1 less when the equity fell below half the initial balance.
C5_RewardByVariant ==
    /\ EnvStepped =>
         /\ ret.reward = RSub(RMul(position, StepReturn),
                              RDiv(PaidFee, initial_balance))
         /\ position = Zero => ret.reward = RNeg(RDiv(PaidFee, initial_balance))
    /\ (mode = "train" /\ Stepped) =>
         ret.reward = RSub(IF pre.step > lookback
                           THEN RSub(RMul(pre.position, LastReturn), PaidCost)
                           ELSE Zero,
                           IF RLess(equity, HalfBalance) THEN One ELSE Zero)

C5_Witness ==
    /\ EnvStepped
    /\ pre.position = Zero
    /\ position = One
    /\ PrevPrice = 1000
    /\ NextPrice = 2000
    /\ ret.reward = RSub(One, Rat(1, 10000))

Observed == ret.op \in {"reset", "step", "end"}

\* C9: every observation built by reset or step, of either simulator and at
\* every cursor (below lookback, right after reset, at the last row), has
\* exactly lookback rows.
C9_WindowShape == Observed => Len(ret.obs) = lookback

\* C10: when only k = cursor + 1 < lookback rows are available, the window of
\* src/btc_env.py is row 0 repeated lookback - k times followed by rows
\* 0 .. k - 1 in order.
C10_Padding ==
    (mode = "env" /\ Observed /\ current_step + 1 < lookback) =>
        ret.obs = [i \in 1..lookback |->
                     IF i <= lookback - (current_step + 1) THEN 0
                     ELSE i - (lookback - (current_step + 1)) - 1]

C10_Witness ==
    /\ mode = "env"
    /\ Stepped
    /\ lookback = 10
    /\ current_step = 4
    /\ \A i \in 1..5 : ret.obs[i] = 0
    /\ \A i \in 6..10 : ret.obs[i] = i - 6

Seeded ==
    /\ position = Zero
    /\ equity = initial_balance
    /\ peak_equity = initial_balance
    /\ total_trades = 0
    /\ total_fees = Zero

\* C11: after construction and after every reset that returned, of either
\* simulator, the engine state is position = 0, equity = initial_balance,
\* peak_equity = initial_balance, total_trades = 0 and total_fees = 0.
C11_ResetSeeding == ret.op \in {"init", "reset"} => Seeded

\* C12: construction of either simulator over a dataset with fewer than
\* lookback + max_episode_steps + 1 rows fails: no instance exists afterwards.
C12_ShortHistoryFails ==
    (mode \in {"env", "train"} /\ data_length < lookback + MaxEpisodeSteps + 1)
        => ret.op = "failed"

\* C17: a step of either simulator moves position, equity (relative to the
\* initial balance) and the trade count exactly as the live update does from
\* the same position and equity with the same target and price return.
C17_SameTransition ==
    Stepped =>
        LET r == IF mode = "train" THEN LastReturn ELSE StepReturn
        IN  /\ position = Clip(pre.action)
            /\ RDiv(equity, initial_balance) =
                   LiveNewEquity(RDiv(pre.equity, initial_balance), pre.position,
                                 position, r)
            /\ total_trades = pre.total_trades
                                + (IF IsTrade(position, pre.position) THEN 1 ELSE 0)

\* C20: whenever a call of step of src/btc_env.py starts or ends with the
\* cursor on the last data row and neither the drawdown nor the
\* minimum-equity condition holds, it returns truncated = TRUE and
\* terminated = FALSE.
C20_ExhaustionTruncates ==
    (mode = "env" /\ ret.op \in {"step", "end"}
       /\ current_step >= data_length - 1
       /\ ~Terminated(peak_equity, equity))
        => (ret.truncated /\ ~ret.terminated)

----------------------------------------------------------------------------
(* Properties of the live path and the ledger *)

RecordReturned(i) == ticks[i].pc \in {"logged", "raised"}
LinesOfMinute(d, ts) ==
    {k \in 1..Len(primary[d]) : primary[d][k].timestamp \div 60 = ts \div 60}
TickDay(i) == ticks[i].decision.timestamp \div 86400
TickMinute(i) == ticks[i].decision.timestamp \div 60
Accepted(i) == ticks[i].status = 200
Quiescent == \A i \in TickIds : ticks[i].pc \in {"new", "failed", "logged", "raised"}

\* C1: once record(d1) and record(d2) have both returned for two decisions of
\* the same minute bucket, the day partition holds exactly one entry of that
\* minute and one of the two calls found it and appended nothing.
C1_Idempotent ==
    \A i, j \in TickIds :
        (i # j /\ RecordReturned(i) /\ RecordReturned(j)
           /\ TickMinute(i) = TickMinute(j)) =>
            /\ Cardinality(LinesOfMinute(TickDay(i), ticks[i].decision.timestamp)) = 1
            /\ ticks[i].found \/ ticks[j].found

C1_Witness ==
    /\ ticks[1].pc = "logged" /\ ticks[1].decision.timestamp = 0
    /\ ticks[2].pc = "logged" /\ ticks[2].decision.timestamp = 59
    /\ ~ticks[1].found /\ ticks[2].found
    /\ primary[0] = <<ticks[1].decision>>

\* C2: whatever the order in which two ticks of the same minute are handled
\* and their background ledger writes run, no day partition ever holds two
\* entries of one minute, and when all writes are over the minute of every
\* answered tick has exactly one entry.
C2_OneEntryPerMinute ==
    /\ \A d \in Days : \A k1, k2 \in 1..Len(primary[d]) :
          primary[d][k1].timestamp \div 60 = primary[d][k2].timestamp \div 60
             => k1 = k2
    /\ Quiescent =>
          \A i \in TickIds : Accepted(i) =>
              Cardinality(LinesOfMinute(TickDay(i), ticks[i].decision.timestamp)) = 1

C2_Witness ==
    /\ Quiescent
    /\ Accepted(1) /\ Accepted(2)
    /\ ticks[1].decision.timestamp = 59 /\ ticks[2].decision.timestamp = 0
    /\ ticks[1].found /\ ~ticks[2].found
    /\ primary[0] = <<ticks[2].decision>>

InUnitRange(x) == x.n <= x.d /\ -x.n <= x.d

\* C3: the position committed by step (simulators) and by a tick (live path)
\* is in [-1, 1] for every raw action, so the position is in [-1, 1] in every
\* reachable state, and so is every position written to the ledger.
C3_PositionClamped ==
    /\ InUnitRange(position)
    /\ InUnitRange(current_position)
    /\ \A d \in Days : \A k \in 1..Len(primary[d]) : InUnitRange(primary[d][k].position)

C3_Witness ==
    /\ EnvStepped
    /\ pre.action = Rat(2, 1)
    /\ pre.position = Rat(1, 2)
    /\ position = One

\* C8: when the upload to the backup sink fails during record of a decision
\* whose minute was not yet recorded, record still returns normally and the
\* primary day partition contains the new record.
C8_BackupFailureNonFatal ==
    \A i \in TickIds :
        (RecordReturned(i) /\ ~ticks[i].found /\ ~ticks[i].backup_ok) =>
            /\ ticks[i].pc = "logged"
            /\ \E k \in 1..Len(primary[TickDay(i)]) :
                  primary[TickDay(i)][k] = ticks[i].decision

C8_Witness ==
    /\ ticks[1].pc = "logged"
    /\ ~ticks[1].found
    /\ ~ticks[1].backup_ok
    /\ primary[TickDay(1)] = <<ticks[1].decision>>
    /\ backup[TickDay(1)] = << >>

----------------------------------------------------------------------------
(* Properties of the ledger under faults and of the live state *)

Damaged(d) == \E k \in 1..Len(primary[d]) : primary[d][k] = Malformed
RecordsOfMinute(d, ts) ==
    {k \in LinesOfMinute(d, ts) : primary[d][k] # Malformed}

\* C13: once record has returned for a decision whose day partition holds a
\* line that is not a record (and the disk itself worked), the call did not
\* raise or give up because of that line, and the partition holds exactly one
\* valid entry of the decision's minute: the new one unless one was there.
C13_MalformedTolerated ==
    \A i \in TickIds :
        (RecordReturned(i) /\ Damaged(TickDay(i))
           /\ ticks[i].error \notin {"read", "write"}) =>
            /\ ticks[i].pc = "logged"
            /\ ticks[i].error = "none"
            /\ Cardinality(RecordsOfMinute(TickDay(i),
                                           ticks[i].decision.timestamp)) = 1

\* C14: a record call in which reading or appending the primary day
\* partition failed ends with the error raised to its caller, in main.py and
\* in main_simple.py alike.
C14_PrimaryFailureRaises ==
    \A i \in TickIds :
        (RecordReturned(i) /\ ticks[i].error \in {"read", "write"}) =>
            ticks[i].pc = "raised"

After(i) == LiveState(ticks[i].decision.position, ticks[i].decision.equity,
                      ticks[i].decision.trade_count)
Globals == LiveState(current_position, current_equity, trade_count)
RecordFailed(i) ==
    \/ ticks[i].pc = "raised"
    \/ ticks[i].pc = "logged" /\ ticks[i].error # "none"
    \/ ticks[i].pc = "logged" /\ ~ticks[i].found /\ ~ticks[i].backup_ok

\* C15: a step in which the record call of a tick fails, on the primary
\* partition or on the backup, leaves position, equity and trade count as
\* they were: the values its tick committed are not rolled back.
C15_NoRollback ==
    [][(\E i \in TickIds : ~RecordFailed(i) /\ RecordFailed(i)')
          => UNCHANGED <<current_position, current_equity, trade_count>>]_vars

C15_Witness ==
    /\ ticks[1].pc = "raised"
    /\ ticks[1].error = "write"
    /\ ticks[1].before = FreshState
    /\ Globals = After(1)
    /\ current_position = One
    /\ trade_count = 1

IsPrefix(s, t) == Len(s) <= Len(t) /\ SubSeq(t, 1, Len(s)) = s

\* C16: every step keeps the lines of every day partition, unmodified and in
\* order; a step changes at most one partition, the one of the day of the
\* decision being recorded, and only by adding that decision at its end.
C16_AppendOnly ==
    [][/\ \A d \in Days :
             /\ IsPrefix(primary[d], primary'[d])
             /\ Len(primary'[d]) <= Len(primary[d]) + 1
             /\ primary'[d] # primary[d] =>
                   \E i \in TickIds :
                       /\ ticks[i].pc = "append"
                       /\ TickDay(i) = d
                       /\ primary'[d] = Append(primary[d], ticks[i].decision)
       /\ Cardinality({d \in Days : primary'[d] # primary[d]}) <= 1]_vars

C16_Witness ==
    /\ primary[0] = <<ticks[1].decision, ticks[2].decision>>
    /\ primary[1] = << >>
    /\ ticks[1].decision.timestamp = 0
    /\ ticks[2].decision.timestamp = 60
    /\ ticks[2].pc = "logged"

\* C18: a tick for which the candle source supplied no data, too few candles
\* or a file without a price column is never answered with a decision: it
\* does not update the state and nothing of it reaches the ledger.
C18_NoInventedData ==
    \A i \in TickIds :
        ticks[i].candles \in {"unavailable", "short", "nocolumn"} =>
            /\ ticks[i].status # 200
            /\ ticks[i].seq = 0
            /\ \A d \in Days : \A k \in 1..Len(primary[d]) :
                   primary[d][k] # ticks[i].decision

Previous(i) ==
    IF ticks[i].seq = 1 THEN FreshState
    ELSE After(CHOOSE j \in TickIds : ticks[j].seq = ticks[i].seq - 1)

\* C19: the ticks that updated the state form one serial order: each of them
\* read the position, equity and trade count left by the one before it (the
\* first read the startup state), its update is the transition applied to
\* what it read, and the state is the one left by the last of them.
C19_SerialUpdates ==
    /\ \A i, j \in TickIds : (ticks[i].seq > 0 /\ ticks[i].seq = ticks[j].seq) => i = j
    /\ \A i \in TickIds : ticks[i].seq > 0 =>
          /\ ticks[i].before = Previous(i)
          /\ \E r \in LiveReturnSet :
                 After(i).equity = LiveNewEquity(ticks[i].before.equity,
                                                 ticks[i].before.position,
                                                 After(i).position, r)
          /\ After(i).trade_count = ticks[i].before.trade_count
                + (IF IsTrade(After(i).position, ticks[i].before.position)
                   THEN 1 ELSE 0)
    /\ Globals = IF Committed = 0 THEN FreshState
                 ELSE After(CHOOSE j \in TickIds : ticks[j].seq = Committed)

C19_Witness ==
    /\ ticks[2].seq = 1
    /\ ticks[1].seq = 2
    /\ ticks[1].before = After(2)
    /\ After(2) # FreshState
    /\ Globals = After(1)
    /\ Globals # After(2)


----------------------------------------------------------------------------
(* Reset start index *)

LastStart == data_length - MaxEpisodeSteps - 1

\* C21: after a successful reset the cursor c satisfies
\* lookback <= c <= data_length - max_episode_steps - 1, in both simulators;
\* on a dataset where that interval is empty no reset succeeds: the engine of
\* src/btc_env.py is not constructed, the one of src/train raises.
C21_ResetStart ==
    /\ ret.op = "reset" =>
          /\ lookback <= current_step
          /\ current_step <= LastStart
    /\ (mode \in {"env", "train"} /\ LastStart < lookback) =>
          /\ ret.op # "reset"
          /\ mode = "env" => ret.op = "failed"

C21_Witness ==
    /\ mode = "env"
    /\ ret.op = "reset"
    /\ current_step = lookback
    /\ current_step = LastStart


----------------------------------------------------------------------------
(* Trade statistics *)

\* C22: a step adds exactly 1 to total_trades when the clamped target differs
\* from the held position by more than 0.01 and leaves it unchanged otherwise,
\* and neither total_trades nor total_fees decreases from one step to the next.
C22_TradeCounting ==
    Stepped =>
       /\ total_trades = pre.total_trades
             + (IF IsTrade(position, pre.position) THEN 1 ELSE 0)
       /\ RLeq(pre.total_fees, total_fees)


----------------------------------------------------------------------------
(* Peak equity *)

EnvConstructed == mode = "env" /\ ret.op # "failed"

\* C23: in every state of the simulator of src/btc_env.py reached by reset and
\* step, peak_equity >= equity and peak_equity >= initial_balance > 0; a step
\* never lowers peak_equity; so the drawdown is >= 0 and its divisor is not 0.
C23_PeakEquity ==
    EnvConstructed =>
       /\ RLeq(equity, peak_equity)
       /\ RLeq(initial_balance, peak_equity)
       /\ RLess(Zero, initial_balance)
       /\ Stepped => RLeq(pre.peak_equity, peak_equity)
       /\ peak_equity.n # 0
       /\ RLeq(Zero, Drawdown(peak_equity, equity))

C23_Witness ==
    /\ EnvStepped
    /\ RLess(initial_balance, pre.peak_equity)
    /\ peak_equity = pre.peak_equity
    /\ RLess(equity, pre.equity)
    /\ RLess(Zero, Drawdown(peak_equity, equity))


\* C27: with the drawdown ceiling at 0.10, whenever equity is at most a tenth
\* of initial_balance the drawdown from the peak exceeds the ceiling, so a
\* step that meets the minimum-equity condition also meets the drawdown one.
C27_MinEquitySubsumed ==
    EnvConstructed =>
       (RLeq(equity, RMul(min_equity_fraction, initial_balance)) =>
            /\ RLess(Zero, peak_equity)
            /\ RLess(max_drawdown_allowed, Drawdown(peak_equity, equity)))

C27_Witness ==
    /\ EnvStepped
    /\ RLeq(equity, RMul(min_equity_fraction, initial_balance))
    /\ RLess(max_drawdown_allowed, Drawdown(peak_equity, equity))
    /\ ret.terminated


----------------------------------------------------------------------------
(* Zero prices *)

AtZeroPrice ==
    /\ mode = "env"
    /\ ret.op \in {"step", "error"}
    /\ data[pre.step + 1] = 0

\* C24: a step taken on a row whose close is 0 fails with an error, whatever
\* the held position and the target, and neither returns a reward nor updates
\* the equity.
C24_ZeroPriceFails ==
    AtZeroPrice =>
       /\ ret.op = "error"
       /\ equity = pre.equity
       /\ position = pre.position


----------------------------------------------------------------------------
(* Episode termination *)

\* C26: under the evaluation loop every episode ends: each step advances the
\* cursor by exactly one row, a step that brings the cursor to the last row
\* reports the end of the episode, and every reset is eventually followed by
\* a step that returns terminated or truncated.
C26_EpisodeEnds ==
    /\ [](Stepped => current_step = pre.step + 1)
    /\ []((Stepped /\ current_step >= data_length - 1) => EpisodeOver)
    /\ (ret.op = "reset") ~> (Stepped /\ EpisodeOver)

C26_Witness ==
    /\ EnvStepped
    /\ pre.step = lookback
    /\ current_step = data_length - 1
    /\ ret.truncated
    /\ ~ret.terminated


----------------------------------------------------------------------------
(* The live path: update, response and deferred record *)

Scheduled(i) == ticks[i].pc \in {"queued", "append", "upload", "logged", "raised"}
Written(i) == ticks[i].pc \in {"upload", "logged"} /\ ~ticks[i].found

\* the state as the update of tick i left it
CommittedBy(i) ==
    IF ticks[i].seq = Committed THEN Globals
    ELSE ticks[CHOOSE j \in TickIds : ticks[j].seq = ticks[i].seq + 1].before

\* C25: a tick answers 200 and has its ledger write scheduled only with its
\* update of position, equity and trade count already made; the decision
\* record carries exactly the values that update left, and the line the
\* deferred write appends is that record, even when another tick changed the
\* state in between.
C25_UpdateBeforeResponse ==
    \A i \in TickIds :
        /\ Accepted(i) => ticks[i].seq > 0
        /\ Scheduled(i) => Accepted(i)
        /\ Accepted(i) => After(i) = CommittedBy(i)
        /\ Written(i) => \E k \in 1..Len(primary[TickDay(i)]) :
                             /\ primary[TickDay(i)][k] = ticks[i].decision
                             /\ LiveState(primary[TickDay(i)][k].position,
                                          primary[TickDay(i)][k].equity,
                                          primary[TickDay(i)][k].trade_count)
                                  = CommittedBy(i)

C25_Witness ==
    /\ ticks[1].seq = 1
    /\ ticks[2].seq = 2
    /\ primary[0] = <<ticks[2].decision, ticks[1].decision>>
    /\ After(1) # After(2)
    /\ Globals = After(2)


\* C28: a live tick whose minute is already in the ledger has still applied its
\* update to position, equity and trade count, while the partition keeps the one
\* line of that minute, written by the tick that recorded it first, unchanged;
\* the state may then differ from the latest ledger entry.
C28_LedgerOnlyIdempotent ==
    \A i \in TickIds :
        ticks[i].found =>
            /\ Accepted(i)
            /\ ticks[i].seq > 0
            /\ After(i) = CommittedBy(i)
            /\ \E j \in TickIds \ {i} :
                   /\ Written(j)
                   /\ TickMinute(j) = TickMinute(i)
                   /\ \A k \in LinesOfMinute(TickDay(i), ticks[i].decision.timestamp) :
                          primary[TickDay(i)][k] = ticks[j].decision

C28_Witness ==
    /\ ticks[1].pc = "logged" /\ ~ticks[1].found
    /\ ticks[2].pc = "logged" /\ ticks[2].found
    /\ ticks[2].seq = 2
    /\ primary[0] = <<ticks[1].decision>>
    /\ Globals = After(2)
    /\ Globals # After(1)
    /\ primary[0][1].position # current_position


----------------------------------------------------------------------------
(* Failed ticks *)

Failed(i) == ticks[i].status \in {400, 500, 503}

\* C29: the step in which a tick ends in an error response leaves position,
\* equity and trade count as they were, and the tick has no ledger write
\* scheduled.
C29_FailedTickNoOp ==
    [][\A i \in TickIds :
          (~Failed(i) /\ Failed(i)') =>
              /\ UNCHANGED <<current_position, current_equity, trade_count>>
              /\ ticks'[i].seq = 0
              /\ ~Scheduled(i)']_vars


----------------------------------------------------------------------------
(* The fetch loop *)

FetchOver == fetch.pc \in {"done", "raised"}

\* C30: whatever the exchange answers (data, an empty result, an exception),
\* no batch is attempted more than max_retries times and the fetch loop
\* comes to an end.
C30_FetchTerminates ==
    /\ [](fetch.attempts <= max_retries)
    /\ <>FetchOver

====
